---------------------------- MODULE Spec2Model ----------------------------
(***************************************************************************)
(* Model of pitivi_echonest_extension/echonest_extension.py.               *)
(*                                                                         *)
(* The extension's state is the three private fields of EchonestExtension  *)
(* (__current_builder, __current_track, __audio_previewer), the widgets of *)
(* every Gtk.Builder it created, the '.analysis' files of the echonest     *)
(* cache directory, and the position and locals of every analysis_worker   *)
(* thread.  The GUI thread is either idle in the main loop or blocked in   *)
(* dialog.run() (line 217).  Worker threads interleave with the GUI thread *)
(* and with each other at every access to shared state.                    *)
(***************************************************************************)
EXTENDS Integers, Sequences, FiniteSets, TLC

\* ------------------------------------------------------------- bounds
MaxWorkers == 3      \* threads started over a run
MaxDialogs == 2      \* Gtk.Builder objects created over a run
NumFiles == 2        \* media files on disk; files 1 and 2 have equal content
MaxVersion == 1      \* distinct analyses the service may return per content
MaxStep == 3         \* cap on the step spinner (the code allows 1..100)
MaxStart == 4        \* beat start times are drawn from 0..MaxStart-1
MaxDur == 2          \* track durations are drawn from 1..MaxDur

\* Python's None, for a track, a builder or a drawing area.
None == 0

Workers == 1..MaxWorkers
Builders == 1..MaxDialogs
Files == 1..NumFiles
Ranges == {"full", "selection"}

\* ------------------------------------------------------ pure functions
RECURSIVE Pow2(_)
Pow2(n) == IF n = 0 THEN 1 ELSE 2 * Pow2(n - 1)

RECURSIVE GCD(_, _)
GCD(a, b) == IF b = 0 THEN a ELSE GCD(b, a % b)

\* start / duration (a true division): the quotient as a fraction in lowest
\* terms, so that equal quotients are equal values.
Div(a, b) == LET g == GCD(a, b) IN <<a \div g, b \div g>>

\* The analyses: a track is identified by a number that encodes its
\* duration and its beats (increasing start times).
NumTracks == Pow2(MaxStart) * MaxDur
TrackIds == 1..NumTracks
Duration(t) == ((t - 1) % MaxDur) + 1
BeatMask(t) == (t - 1) \div MaxDur
RECURSIVE BeatsFrom(_, _)
BeatsFrom(m, s) ==
    IF s >= MaxStart THEN <<>>
    ELSE (IF (m \div Pow2(s)) % 2 = 1 THEN <<s>> ELSE <<>>) \o BeatsFrom(m, s + 1)
Beats(t) == BeatsFrom(BeatMask(t), 0)

\* hash_file: the content hash of a media file.  Files 1 and 2 are copies.
hash_file(f) == (f + 1) \div 2

\* The name of the cache file for a media file (lines 96-98, 106-108).
CacheFileByName(f) == f
CacheFile(f) == hash_file(f)
CacheNames == 1..NumFiles

\* What echotrack.track_from_filename + get_analysis may return for a file.
ServiceTracks(f) == { NumTracks - ((hash_file(f) - 1) * MaxVersion + v - 1) : v \in 1..MaxVersion }

\* A cache file: absent, or its bytes.  pickle.dump writes one whole object;
\* a file opened 'wb' and not written yet is empty.
NoFile == [exists |-> FALSE, data |-> <<>>]
EmptyFile == [exists |-> TRUE, data |-> <<>>]
PickleDump(t) == [exists |-> TRUE, data |-> <<t>>]
Loadable(c) == c.exists /\ Len(c.data) > 0
Malformed(c) == c.exists /\ Len(c.data) = 0
PickleLoad(c) == c.data[1]

\* seq[0::step]
RECURSIVE SliceFrom(_, _, _)
SliceFrom(s, i, step) ==
    IF i > Len(s) THEN <<>> ELSE <<s[i]>> \o SliceFrom(s, i + step, step)
SliceSkippingFirst(s, step) == SliceFrom(s, 1 + step, step)
Slice(s, step) == SliceFrom(s, 1, step)

\* Line 160: the markers of every beat.
AllBeatMarkers(t) == [i \in 1..Len(Beats(t)) |-> Div(Beats(t)[i], Duration(t))]

\* Lines 191-195. t is the track read at line 179, bt the one read at line 193.
MarkersFor(t, bt, range_, step) ==
    IF range_ = "full"
    THEN LET sel == Slice(Beats(bt), step)
         IN [i \in 1..Len(sel) |-> Div(sel[i], Duration(t))]
    ELSE <<>>

\* Lines 186-189.
LabelFor(step) == IF step = 1 THEN "beat" ELSE "beats"

\* ------------------------------------------------------------- state
VARIABLES
    cache,            \* the '.analysis' files, by cache file name
    current_builder,  \* self.__current_builder
    current_track,    \* self.__current_track
    audio_previewer,  \* self.__audio_previewer
    widgets,          \* the widgets of each builder
    gui,              \* "idle", or "dialog" while blocked in dialog.run()
    ndialogs,         \* builders created so far
    nthreads,         \* threads started so far
    nrequests,        \* menu activations so far
    thr               \* the worker threads

vars == <<cache, current_builder, current_track, audio_previewer, widgets,
          gui, ndialogs, nthreads, nrequests, thr>>

ext == <<current_builder, current_track, audio_previewer, widgets>>

NoPreviewer == [darea |-> None, track |-> None, markers |-> <<>>]

\* A builder's widgets as loaded from clip-dialog.ui: the whole range is
\* selected, the spinner is at the bottom of its range (line 210), and the
\* combos and the spinner are insensitive until __prepare_beat_matcher
\* enables them (lines 163-165).
FreshWidgets ==
    [range |-> "full", step |-> 1, label |-> "", sensitive |-> FALSE,
     listbox |-> <<>>, styled |-> FALSE, redraw |-> FALSE]

NoWidgets == FreshWidgets

Unborn ==
    [pc |-> "unborn", file |-> 1, callback |-> FALSE, builder |-> None,
     track |-> None, path |-> "none", fetches |-> 0, wrote |-> FALSE,
     cbTrack |-> None, fault |-> "none", usedBuilder |-> None,
     afterBad |-> FALSE, afterNet |-> FALSE]

\* The cache directory as earlier sessions may have left it: no file, a file
\* cut short (worker threads are daemons, killed at exit), or a whole pickle.
InitCacheFiles(n) ==
    IF \E f \in Files : CacheFile(f) = n
    THEN {NoFile, EmptyFile}
         \cup { PickleDump(t) : t \in UNION { ServiceTracks(f) : f \in { g \in Files : CacheFile(g) = n } } }
    ELSE {NoFile}

Init ==
    /\ cache \in { c \in [CacheNames -> UNION { InitCacheFiles(n) : n \in CacheNames }] :
                     \A n \in CacheNames : c[n] \in InitCacheFiles(n) }
    /\ current_builder = None
    /\ current_track = None
    /\ audio_previewer = NoPreviewer
    /\ widgets = [b \in Builders |-> NoWidgets]
    /\ gui = "idle"
    /\ ndialogs = 0
    /\ nthreads = 0
    /\ nrequests = 0
    /\ thr = [w \in Workers |-> Unborn]


\* ------------------------------------------------------ the GUI thread
Stepped(w) == thr[w].pc # "unborn" /\ thr'[w].pc # thr[w].pc
InFlight(w) == thr[w].pc \notin {"unborn", "done", "stale", "crashed"}

\* __analyse_track (lines 123-127): one new daemon thread per call.
AnalyseTrackOncePerFile(f, callback, b) ==
    IF \E v \in Workers : InFlight(v) /\ hash_file(thr[v].file) = hash_file(f)
    THEN UNCHANGED <<nthreads, thr>>
    ELSE /\ nthreads' = nthreads + 1
         /\ thr' = [thr EXCEPT ![nthreads + 1] =
                [Unborn EXCEPT !.pc = "load", !.file = f,
                               !.callback = callback, !.builder = b]]
AnalyseTrack(f, callback, b) ==
    /\ nthreads' = nthreads + 1
    /\ thr' = [thr EXCEPT ![nthreads + 1] =
          [Unborn EXCEPT
             !.pc = "load", !.file = f, !.callback = callback, !.builder = b,
             !.afterBad = \E v \in Workers :
                             /\ thr[v].fault = "unpickle"
                             /\ hash_file(thr[v].file) = hash_file(f),
             !.afterNet = \E v \in Workers :
                             /\ thr[v].fault = "network"
                             /\ hash_file(thr[v].file) = hash_file(f)]]

\* __run_analysis_clicked_cb (lines 230-231): the asset menu's action.
RunAnalysisClicked(f) ==
    /\ gui = "idle"
    /\ nthreads < MaxWorkers
    /\ nrequests' = nrequests + 1
    /\ AnalyseTrack(f, FALSE, None)
    /\ UNCHANGED <<cache, ext, gui, ndialogs>>

\* __clip_dialog_cb up to dialog.run() (lines 203-217): the clip menu's action.
ClipDialog(f) ==
    /\ gui = "idle"
    /\ nthreads < MaxWorkers
    /\ ndialogs < MaxDialogs
    /\ ndialogs' = ndialogs + 1
    /\ nrequests' = nrequests + 1
    /\ current_builder' = ndialogs + 1
    /\ widgets' = [widgets EXCEPT ![ndialogs + 1] = FreshWidgets]
    /\ AnalyseTrack(f, TRUE, ndialogs + 1)
    /\ gui' = "dialog"
    /\ UNCHANGED <<cache, current_track, audio_previewer>>

\* dialog.run() returns (lines 217-222).
DialogClose ==
    /\ gui = "dialog"
    /\ current_builder' = None
    /\ gui' = "idle"
    /\ UNCHANGED <<cache, current_track, audio_previewer, widgets, ndialogs,
                   nthreads, nrequests, thr>>

\* __compute_markers (lines 177-198) on the widgets wd0, for a builder that
\* is not None.
ComputeMarkers(wd0) ==
    LET b == current_builder
        t == current_track
        range_ == wd0[b].range
        step == wd0[b].step
        markers == MarkersFor(t, current_track, range_, step)
        labelled == [wd0 EXCEPT ![b].label = LabelFor(step)]
    IN  /\ audio_previewer' = [audio_previewer EXCEPT !.markers = markers]
        /\ widgets' = [labelled EXCEPT ![audio_previewer.darea].redraw = TRUE]

\* _matching_changed_cb (lines 200-201): the user changed a combo or the
\* spinner of the open dialog.
MatchingChanged(r, s) ==
    /\ gui = "dialog"
    /\ widgets[current_builder].sensitive
    /\ <<r, s>> # <<widgets[current_builder].range, widgets[current_builder].step>>
    /\ ComputeMarkers([widgets EXCEPT ![current_builder].range = r,
                                      ![current_builder].step = s])
    /\ UNCHANGED <<cache, current_builder, current_track, gui, ndialogs,
                   nthreads, nrequests, thr>>

\* --------------------------------------------------- the worker threads
Crash(w, why) ==
    thr' = [thr EXCEPT ![w].pc = "crashed", ![w].fault = why]

AfterAnalysis(w) == IF thr[w].callback THEN "check" ELSE "done"

\* __load_from_cache (lines 95-103): the track, or None on IOError.
\* pickle.load raises EOFError on a file cut short; only IOError is caught.
LoadNeverRaises(f) == FALSE
LoadRaises(f) == Malformed(cache[CacheFile(f)])
LoadFromCacheNever(f) == None
LoadFromCache(f) ==
    LET c == cache[CacheFile(f)] IN IF Loadable(c) THEN PickleLoad(c) ELSE None

\* Line 113 and the test of line 115.
Load(w) ==
    /\ thr[w].pc = "load"
    /\ IF LoadRaises(thr[w].file)
       THEN Crash(w, "unpickle")
       ELSE LET track == LoadFromCache(thr[w].file)
            IN  IF track = None
                THEN thr' = [thr EXCEPT ![w].pc = "fetch", ![w].path = "miss"]
                ELSE thr' = [thr EXCEPT ![w].pc = AfterAnalysis(w),
                                        ![w].path = "hit", ![w].track = track]
    /\ UNCHANGED <<cache, ext, gui, ndialogs, nthreads, nrequests>>

\* Lines 116-117: the two calls to the analysis service; either may raise.
\* Line 118 follows a fetch that returned.
AfterFetchSkippingSave(w) == AfterAnalysis(w)
AfterFetch(w) == "save_open"

\* An exception of the service calls is caught nowhere: the thread ends.
NetworkFaultSwallowed(w) ==
    thr' = [thr EXCEPT ![w].pc = AfterAnalysis(w), ![w].fault = "network",
                       ![w].fetches = @ + 1]
NetworkFault(w) ==
    thr' = [thr EXCEPT ![w].pc = "crashed", ![w].fault = "network",
                       ![w].fetches = @ + 1]

Fetch(w) ==
    /\ thr[w].pc = "fetch"
    /\ \/ \E t \in ServiceTracks(thr[w].file) :
             thr' = [thr EXCEPT ![w].pc = AfterFetch(w), ![w].track = t,
                                ![w].fetches = @ + 1]
       \/ NetworkFault(w)
    /\ UNCHANGED <<cache, ext, gui, ndialogs, nthreads, nrequests>>

\* __save_to_cache, line 109: open(filename, 'wb') truncates the file.
SaveOpen(w) ==
    /\ thr[w].pc = "save_open"
    /\ cache' = [cache EXCEPT ![CacheFile(thr[w].file)] = EmptyFile]
    /\ thr' = [thr EXCEPT ![w].pc = "save_dump"]
    /\ UNCHANGED <<ext, gui, ndialogs, nthreads, nrequests>>

\* __save_to_cache, line 110, and the close of the file.
SaveDump(w) ==
    /\ thr[w].pc = "save_dump"
    /\ cache' = [cache EXCEPT ![CacheFile(thr[w].file)] = PickleDump(thr[w].track)]
    /\ thr' = [thr EXCEPT ![w].pc = AfterAnalysis(w), ![w].wrote = TRUE]
    /\ UNCHANGED <<ext, gui, ndialogs, nthreads, nrequests>>

\* Lines 120-121 and 170-171: the callback is called; it returns at once
\* when its builder is not the current one.
IsCurrentAlways(b) == TRUE
IsCurrent(b) == b = current_builder

Check(w) ==
    /\ thr[w].pc = "check"
    /\ thr' = [thr EXCEPT ![w].cbTrack = thr[w].track,
                          ![w].pc = IF IsCurrent(thr[w].builder)
                                    THEN "set_track" ELSE "stale"]
    /\ UNCHANGED <<cache, ext, gui, ndialogs, nthreads, nrequests>>

\* Line 173.
SetTrack(w) ==
    /\ thr[w].pc = "set_track"
    /\ current_track' = thr[w].track
    /\ thr' = [thr EXCEPT ![w].pc = "fill"]
    /\ UNCHANGED <<cache, current_builder, audio_previewer, widgets, gui,
                   ndialogs, nthreads, nrequests>>

\* The builder __fill_metadata_list works on (line 136).
FillBuilderOfRequest(w) == thr[w].builder
FillBuilder(w) == current_builder

\* __fill_metadata_list (lines 135-154).
Fill(w) ==
    /\ thr[w].pc = "fill"
    /\ LET b == FillBuilder(w)
       IN  IF b = None
           THEN Crash(w, "nonetype") /\ UNCHANGED widgets
           ELSE /\ widgets' = [widgets EXCEPT ![b].listbox = Append(@, thr[w].track)]
                /\ thr' = [thr EXCEPT ![w].pc = "prep", ![w].usedBuilder = b]
    /\ UNCHANGED <<cache, current_builder, current_track, audio_previewer, gui,
                   ndialogs, nthreads, nrequests>>

\* __prepare_beat_matcher, lines 157-161.
Prep(w) ==
    /\ thr[w].pc = "prep"
    /\ IF current_builder = None
       THEN Crash(w, "nonetype") /\ UNCHANGED <<audio_previewer, widgets>>
       ELSE /\ audio_previewer' =
                  [darea |-> current_builder, track |-> thr[w].track,
                   markers |-> AllBeatMarkers(thr[w].track)]
            /\ widgets' = [widgets EXCEPT ![current_builder].styled = TRUE]
            /\ thr' = [thr EXCEPT ![w].pc = "sensitive"]
    /\ UNCHANGED <<cache, current_builder, current_track, gui, ndialogs, nthreads, nrequests>>

\* __prepare_beat_matcher, lines 163-165.
Sensitive(w) ==
    /\ thr[w].pc = "sensitive"
    /\ IF current_builder = None
       THEN Crash(w, "nonetype") /\ UNCHANGED widgets
       ELSE /\ widgets' = [widgets EXCEPT ![current_builder].sensitive = TRUE]
            /\ thr' = [thr EXCEPT ![w].pc = "compute"]
    /\ UNCHANGED <<cache, current_builder, current_track, audio_previewer, gui,
                   ndialogs, nthreads, nrequests>>

\* __prepare_beat_matcher, line 167: __compute_markers on the worker thread.
Compute(w) ==
    /\ thr[w].pc = "compute"
    /\ IF current_builder = None
       THEN Crash(w, "nonetype") /\ UNCHANGED <<audio_previewer, widgets>>
       ELSE ComputeMarkers(widgets) /\ thr' = [thr EXCEPT ![w].pc = "done"]
    /\ UNCHANGED <<cache, current_builder, current_track, gui, ndialogs, nthreads, nrequests>>

Next ==
    \/ \E f \in Files : RunAnalysisClicked(f)
    \/ \E f \in Files : ClipDialog(f)
    \/ DialogClose
    \/ \E r \in Ranges, s \in 1..MaxStep : MatchingChanged(r, s)
    \/ \E w \in Workers :
         \/ Load(w) \/ Fetch(w) \/ SaveOpen(w) \/ SaveDump(w) \/ Check(w)
         \/ SetTrack(w) \/ Fill(w) \/ Prep(w) \/ Sensitive(w) \/ Compute(w)

Spec == Init /\ [][Next]_vars

\* ----------------------------------- the beat matcher on arbitrary input
\* A dialog whose analysis, loaded from the cache, has just been handed to
\* __prepare_beat_matcher: the track is any track, of any beats and
\* duration.  The combo and the spinner then take every value through
\* _matching_changed_cb.
InitMarkers ==
    \E f \in Files, t \in TrackIds :
        /\ cache = [n \in CacheNames |->
                       IF n = CacheFile(f) THEN PickleDump(t) ELSE NoFile]
        /\ current_builder = 1
        /\ current_track = t
        /\ audio_previewer = NoPreviewer
        /\ widgets = [b \in Builders |->
                         IF b = 1
                         THEN [FreshWidgets EXCEPT !.listbox = <<t>>]
                         ELSE NoWidgets]
        /\ gui = "dialog"
        /\ ndialogs = 1
        /\ nthreads = 1
        /\ nrequests = 1
        /\ thr = [w \in Workers |->
                     IF w = 1
                     THEN [Unborn EXCEPT !.pc = "prep", !.file = f,
                                         !.callback = TRUE, !.builder = 1,
                                         !.track = t, !.path = "hit",
                                         !.cbTrack = t, !.usedBuilder = 1]
                     ELSE Unborn]

NextMarkers ==
    \/ \E r \in Ranges, s \in 1..MaxStep : MatchingChanged(r, s)
    \/ DialogClose
    \/ \E w \in Workers : Prep(w) \/ Sensitive(w) \/ Compute(w)

SpecMarkers == InitMarkers /\ [][NextMarkers]_vars

\* ------------------------------------------------------------- claims
Key(w) == CacheFile(thr[w].file)

\* The GUI thread ran _matching_changed_cb: a combo or the spinner of the
\* open dialog changed.
GuiComputes ==
    /\ current_builder # None
    /\ current_builder' = current_builder
    /\ \/ widgets'[current_builder].range # widgets[current_builder].range
       \/ widgets'[current_builder].step # widgets[current_builder].step

\* A worker ran __compute_markers (line 167).
WorkerComputes(w) == thr[w].pc = "compute" /\ Stepped(w)

\* C1: a worker that finds a loadable cache entry for its file's content
\* hash takes the cached track, never calls the analysis service, never
\* writes the cache, and hands the cached track to the callback.
C1_CacheHitAvoidsNetwork ==
    /\ [](\A w \in Workers :
            thr[w].path = "hit" =>
               /\ thr[w].fetches = 0
               /\ ~thr[w].wrote
               /\ thr[w].cbTrack \in {None, thr[w].track})
    /\ [][\A w \in Workers :
            /\ (thr[w].pc = "load" /\ Stepped(w)
                   /\ Loadable(cache[hash_file(thr[w].file)]))
                  => /\ thr'[w].path = "hit"
                     /\ thr'[w].track = cache[hash_file(thr[w].file)].data[1]
                     /\ thr'[w].pc \in {"check", "done"}
            /\ (thr[w].path = "hit" /\ Stepped(w))
                  => /\ cache' = cache
                     /\ thr'[w].track = thr[w].track]_vars

\* C1 witness: a dialog's worker found the entry an earlier session left and
\* its callback received it; nobody called the service or wrote the cache.
C1_Witness ==
    \E w \in Workers :
        /\ thr[w].path = "hit" /\ thr[w].callback
        /\ thr[w].cbTrack = thr[w].track /\ thr[w].track # None
        /\ \A v \in Workers : thr[v].fetches = 0 /\ ~thr[v].wrote

\* C2: on a missing cache file the worker goes on, without a fault, to one
\* fetch; the fetched track is written to the cache; the callback is called
\* only after that write, with the fetched track, when the entry exists.
C2_MissFetchesThenWritesThenCallsBack ==
    /\ [](\A w \in Workers :
            /\ thr[w].fetches <= 1
            /\ thr[w].path = "miss" =>
                 /\ thr[w].pc \in {"save_open", "save_dump"} =>
                       thr[w].fetches = 1 /\ thr[w].track # None /\ ~thr[w].wrote
                 /\ thr[w].wrote => thr[w].fetches = 1
                 /\ thr[w].cbTrack # None =>
                       /\ thr[w].wrote
                       /\ thr[w].cbTrack = thr[w].track
                       /\ cache[hash_file(thr[w].file)].exists
                 /\ thr[w].pc \in {"check", "done"} => thr[w].wrote)
    /\ [][\A w \in Workers :
            /\ (thr[w].pc = "load" /\ Stepped(w)
                   /\ ~cache[hash_file(thr[w].file)].exists)
                  => /\ thr'[w].pc = "fetch" /\ thr'[w].path = "miss"
                     /\ thr'[w].fault = "none"
            /\ (thr[w].pc = "fetch" /\ Stepped(w) /\ thr'[w].pc # "crashed")
                  => /\ thr'[w].pc = "save_open"
                     /\ thr'[w].track \in ServiceTracks(thr[w].file)
            /\ (thr[w].pc = "save_dump" /\ Stepped(w))
                  => /\ cache'[hash_file(thr[w].file)].data = <<thr[w].track>>
                     /\ thr'[w].cbTrack = None]_vars

\* C2 witness: a dialog's worker missed, fetched, wrote, and then called back.
C2_Witness ==
    \E w \in Workers :
        /\ thr[w].path = "miss" /\ thr[w].callback /\ thr[w].wrote
        /\ thr[w].cbTrack = thr[w].track /\ thr[w].track # None
        /\ thr[w].fetches = 1

\* C3: once a worker has gone through the miss path and its entry is still
\* what it wrote, a worker loading for a file of the same content hash (of
\* whatever name, started by whichever menu action) gets that same track
\* and never calls the service.
C3_SavedAnalysisIsLoadedBack ==
    /\ [](\A w \in Workers : thr[w].path = "hit" => thr[w].fetches = 0)
    /\ [][\A v, w \in Workers :
            (/\ v # w
             /\ thr[v].wrote
             /\ hash_file(thr[v].file) = hash_file(thr[w].file)
             /\ cache[Key(v)] = PickleDump(thr[v].track)
             /\ thr[w].pc = "load" /\ Stepped(w))
               => /\ thr'[w].path = "hit"
                  /\ thr'[w].track = thr[v].track
                  /\ thr'[w].pc \in {"check", "done"}]_vars

\* C3 witness: the asset menu's worker saved an analysis and a dialog's
\* worker for a copy of the file (another name, same content) loaded it.
C3_Witness ==
    \E v, w \in Workers :
        /\ thr[v].wrote /\ ~thr[v].callback /\ thr[v].pc = "done"
        /\ thr[w].callback /\ thr[w].path = "hit"
        /\ thr[w].file # thr[v].file
        /\ hash_file(thr[w].file) = hash_file(thr[v].file)
        /\ thr[w].track = thr[v].track
        /\ thr[w].cbTrack = thr[v].track

\* C4: every menu activation starts a thread of its own, and every worker
\* that missed makes its own service call: nothing is shared or awaited
\* between requests for the same content.
C4_OneThreadPerRequest ==
    /\ nthreads = nrequests
    /\ \A w \in 1..nthreads : thr[w].pc # "unborn"
    /\ \A b \in 1..ndialogs : \E w \in 1..nthreads : thr[w].builder = b
    /\ \A w \in Workers :
          (thr[w].path = "miss" /\ thr[w].pc # "fetch") => thr[w].fetches = 1

\* C4 witness: two requests for the same content both missed, both called
\* the service and both wrote the same cache file.
C4_Witness ==
    \E v, w \in Workers :
        /\ v # w
        /\ hash_file(thr[v].file) = hash_file(thr[w].file)
        /\ thr[v].path = "miss" /\ thr[w].path = "miss"
        /\ thr[v].fetches = 1 /\ thr[w].fetches = 1
        /\ thr[v].wrote /\ thr[w].wrote

\* C5: after the check of line 170, the callback works on whatever
\* __current_builder is at each later line, not on the builder it was called
\* with: with None it faults, with another dialog's builder it fills that
\* dialog.
C5_CallbackUsesCurrentBuilder ==
    [][\A w \in Workers :
         /\ (thr[w].pc = "fill" /\ Stepped(w)) =>
               IF current_builder = None
               THEN /\ thr'[w].pc = "crashed" /\ thr'[w].fault = "nonetype"
                    /\ widgets' = widgets
               ELSE /\ thr'[w].pc = "prep"
                    /\ widgets'[current_builder].listbox =
                          Append(widgets[current_builder].listbox, thr[w].track)
                    /\ \A b \in Builders \ {current_builder} :
                          widgets'[b] = widgets[b]
         /\ (thr[w].pc = "prep" /\ Stepped(w)) =>
               IF current_builder = None
               THEN thr'[w].pc = "crashed" /\ audio_previewer' = audio_previewer
               ELSE audio_previewer'.darea = current_builder]_vars

\* C5 witness: one worker passed the check and then filled the list of a
\* dialog opened later; another passed it and then found None.
C5_Witness ==
    /\ \E w \in Workers :
          /\ thr[w].usedBuilder # None
          /\ thr[w].usedBuilder # thr[w].builder
          /\ thr[w].track \in
                { widgets[thr[w].usedBuilder].listbox[i] :
                     i \in 1..Len(widgets[thr[w].usedBuilder].listbox) }
    /\ \E v \in Workers :
          thr[v].fault = "nonetype" /\ thr[v].cbTrack # None

\* C6 as claimed, its last part: a request made after a fetch for the same
\* content has failed misses the cache again.
C6_LaterRequestMissesAgain ==
    \A w \in Workers :
        (thr[w].afterNet /\ thr[w].pc \notin {"unborn", "load"})
           => thr[w].path = "miss"

\* C6 as amended: a fault of the service call ends the worker: no cache
\* write, no callback, no change to the cache or to the extension's fields;
\* a missing entry comes to exist only through a worker whose own fetch
\* returned, and a later request that finds it still missing fetches again.
C6_NetworkFaultEndsWorker ==
    /\ [](\A w \in Workers :
            thr[w].fault = "network" =>
               /\ thr[w].pc = "crashed"
               /\ ~thr[w].wrote
               /\ thr[w].cbTrack = None
               /\ thr[w].track = None
               /\ thr[w].fetches = 1)
    /\ [][\A w \in Workers :
            /\ (thr[w].pc = "fetch" /\ Stepped(w) /\ thr'[w].fault = "network")
                  => /\ cache' = cache
                     /\ current_builder' = current_builder
                     /\ current_track' = current_track
                     /\ audio_previewer' = audio_previewer
                     /\ widgets' = widgets
            /\ (thr[w].afterNet /\ thr[w].pc = "load" /\ Stepped(w)
                   /\ ~cache[hash_file(thr[w].file)].exists)
                  => thr'[w].pc = "fetch"
            /\ (~cache[hash_file(thr[w].file)].exists
                   /\ cache'[hash_file(thr[w].file)].exists)
                  => \E v \in Workers :
                        /\ thr[v].pc = "save_open" /\ Stepped(v)
                        /\ hash_file(thr[v].file) = hash_file(thr[w].file)
                        /\ thr[v].fetches = 1 /\ thr[v].fault = "none"]_vars

\* C6 witness: a fetch failed, left no entry, and a request made after it
\* missed and called the service again.
C6_Witness ==
    \E v, w \in Workers :
        /\ thr[v].fault = "network"
        /\ thr[w].afterNet /\ thr[w].file = thr[v].file
        /\ thr[w].path = "miss" /\ thr[w].fetches = 1
        /\ \A u \in Workers \ {v, w} : thr[u].pc = "unborn"

\* C7 as claimed: once a request has failed on a malformed entry, every
\* later request for that content fails the same way.
C7_EveryLaterRequestFails ==
    \A w \in Workers :
        (thr[w].afterBad /\ thr[w].pc \notin {"unborn", "load"})
           => thr[w].fault = "unpickle"

\* A worker that missed and has not finished writing its entry.
Writing(w, n) == thr[w].pc \in {"fetch", "save_open", "save_dump"} /\ Key(w) = n

\* C7 as amended: a malformed entry makes the worker fault with no service
\* call, no write and no callback, and it stays malformed, failing every
\* later request, unless a worker that missed earlier is still to write it.
C7_MalformedEntryFaults ==
    /\ [](\A w \in Workers :
            thr[w].fault = "unpickle" =>
               /\ thr[w].pc = "crashed"
               /\ thr[w].fetches = 0
               /\ ~thr[w].wrote
               /\ thr[w].cbTrack = None)
    /\ [][/\ \A w \in Workers :
               (thr[w].pc = "load" /\ Stepped(w)
                   /\ Malformed(cache[hash_file(thr[w].file)]))
                  => /\ thr'[w].pc = "crashed" /\ thr'[w].fault = "unpickle"
                     /\ cache' = cache
          /\ \A n \in CacheNames :
               (Malformed(cache[n]) /\ ~\E v \in Workers : Writing(v, n))
                  => /\ Malformed(cache'[n])
                     /\ ~\E v \in Workers : Writing(v, n)']_vars

\* C7 witness: an entry left malformed by an earlier session failed one
\* request and then a later one.
C7_Witness ==
    \E v, w \in Workers :
        /\ thr[v].fault = "unpickle"
        /\ thr[w].afterBad /\ thr[w].fault = "unpickle"
        /\ \A u \in Workers : ~thr[u].wrote /\ thr[u].fetches = 0

\* C8: __compute_markers sets the label to 'beat' exactly for step 1, and
\* the markers to start/duration of the beats 0, step, 2*step, ... in order
\* (none for a range other than 'full'); for step 1 and 'full' that is the
\* list of all beats that __prepare_beat_matcher set first.
C8_MarkersOfEveryStepthBeat ==
    [][((\E w \in Workers : WorkerComputes(w) /\ thr'[w].pc = "done") \/ GuiComputes) =>
         LET wd == widgets'[current_builder]
             beats == Beats(current_track)
             n == Len(beats)
             m == audio_previewer'.markers
         IN  /\ (wd.label = "beat") = (wd.step = 1)
             /\ wd.label \in {"beat", "beats"}
             /\ wd.range # "full" => m = <<>>
             /\ wd.range = "full" =>
                  /\ Len(m) = (n + wd.step - 1) \div wd.step
                  /\ \A k \in 1..Len(m) :
                        /\ m[k][1] * Duration(current_track)
                              = m[k][2] * beats[(k - 1) * wd.step + 1]
                        /\ m[k][2] > 0
                        /\ GCD(m[k][1], m[k][2]) = 1
                  /\ n > 0 => m[1] = Div(beats[1], Duration(current_track))
                  /\ wd.step = 1 => m = AllBeatMarkers(current_track)]_vars

\* C8 witness: markers of every second beat of a track whose number of beats
\* is odd, with the label in the plural.
C8_Witness ==
    /\ current_builder # None /\ current_track # None
    /\ widgets[current_builder].label = "beats"
    /\ widgets[current_builder].range = "full"
    /\ widgets[current_builder].step = 2
    /\ widgets[current_builder].redraw
    /\ Len(Beats(current_track)) = 3
    /\ Len(audio_previewer.markers) = 2
    /\ audio_previewer.markers[2] # audio_previewer.markers[1]

\* C9: a callback whose builder is not the current one at the check returns
\* at once, and a worker without callback ends after the cache: neither
\* changes __current_track, __audio_previewer, the markers or any widget.
C9_StaleResultsAreDiscarded ==
    [][\A w \in Workers :
         /\ (thr[w].pc = "check" /\ Stepped(w)
                /\ thr[w].builder # current_builder)
               => thr'[w].pc = "stale"
         /\ (Stepped(w) /\ thr'[w].pc = "stale") =>
               /\ thr[w].builder # current_builder
               /\ UNCHANGED <<cache, ext>>
         /\ thr[w].pc = "stale" => thr'[w] = thr[w]
         /\ (Stepped(w) /\ ~thr[w].callback) =>
               /\ UNCHANGED ext
               /\ thr'[w].pc \notin {"check", "set_track", "fill", "prep",
                                     "sensitive", "compute", "stale"}]_vars

\* C9 witness: with an earlier dialog's analysis still in the fields, a
\* callback came back for a closed dialog and was dropped, and an asset
\* menu's worker ran to its end.
C9_Witness ==
    /\ current_track # None /\ audio_previewer.darea # None
    /\ \E w \in Workers : thr[w].pc = "stale" /\ thr[w].cbTrack # None
    /\ \E v \in Workers : ~thr[v].callback /\ thr[v].pc = "done" /\ thr[v].wrote

\* C10 as claimed: whenever __compute_markers runs, __current_builder is not
\* None and __current_track and __audio_previewer are those that
\* __display_track_analysis set for that same builder.
C10_MarkersFromOwnAnalysis ==
    [][((\E w \in Workers : WorkerComputes(w)) \/ GuiComputes) =>
         /\ current_builder # None
         /\ \E w \in Workers :
               /\ thr[w].builder = current_builder
               /\ thr[w].pc \in {"compute", "done"}
               /\ current_track = thr[w].track
               /\ audio_previewer.darea = current_builder
               /\ audio_previewer.track = thr[w].track]_vars

=============================================================================
